---- MODULE Spec2Model ----
(***************************************************************************)
(* Cycle-level model of the Wishbone debug/guard blocks (debug.py) and of  *)
(* the AXI-Lite to AXI adapter (axil2axi.py) of the FK33 HBM2 test SoC,    *)
(* and of the construction-time checks of its HBM bus chain (fk33.py,      *)
(* wb2axi.py).                                                             *)
(*                                                                         *)
(* A state is one clock cycle: the registers (sync-assigned signals and    *)
(* CSR storages) together with the values the module inputs take in that   *)
(* cycle.  Combinational outputs (comb assignments) are operators over the *)
(* state.  An action is one rising clock edge: every register takes its    *)
(* next value and the environment presents the inputs of the next cycle.   *)
(***************************************************************************)
EXTENDS Integers, Sequences, FiniteSets, TLC

VARIABLES
    timeouts,       \* WishboneGuard.timeouts.status  (32-bit CSRStatus)
    limit,          \* WishboneGuard.limit.storage    (32-bit CSRStorage)
    soft_control,   \* WishboneSoftInjector.soft_control.storage (1 bit)
    state,          \* WishboneSoftControl.fsm state
    adr,            \* WishboneSoftControl adr latch
    data,           \* WishboneSoftControl data latch
    data_storage,   \* WishboneSoftControl.data.storage (the 'data' CSR)
    adr_storage,    \* WishboneSoftControl.adr.storage  (the 'adr' CSR)
    cpu,            \* request driven by the hardware master in this cycle
    soft,           \* request on the injector's wb_csr port in this cycle
    timeout,        \* WishboneGuard.timeout input in this cycle
    rsp,            \* response of the downstream slave in this cycle
    write_re,       \* WishboneSoftControl.write.re pulse in this cycle
    read_re,        \* WishboneSoftControl.read.re pulse in this cycle
    reset_re,       \* WishboneGuard.reset.re pulse in this cycle
    csr,            \* CSR storage written in this cycle: <<name, value>>
    mem,            \* contents of the ideal memory slave
    last_write,     \* history: <<adr, data>> of the last issued write command
    axi_lite,       \* AXI-Lite side signals driven into AXILite2AXI
    axi_in,         \* AXI side signals driven into AXILite2AXI
    params,         \* AXILite2AXI constructor arguments
    count,          \* BusCSRDebug.count.status (32-bit CSRStatus)
    snapshot,       \* BusCSRDebug named-signal CSRStatus register
    debug_in,       \* BusCSRDebug trigger, reset and named signal this cycle
    l2,             \* a call of add_l2_cache: arguments, position, result
    wb2axi,         \* a construction of WishbonePipelined2AXI
    soc             \* a construction of the HBM bus chain of BaseSoC

vars == <<timeouts, limit, soft_control, state, adr, data, data_storage,
          adr_storage, cpu, soft, timeout, rsp, write_re, read_re, reset_re,
          csr, mem, last_write, axi_lite, axi_in, params, count, snapshot,
          debug_in, l2, wb2axi, soc>>

guard_vars == <<timeouts, limit, timeout, reset_re>>
softcontrol_vars == <<state, adr, data, data_storage, adr_storage,
                      write_re, read_re, last_write>>
axi_vars == <<axi_lite, axi_in, params>>
debug_vars == <<count, snapshot, debug_in>>
build_vars == <<l2, wb2axi, soc>>

----------------------------------------------------------------------------
(* Program constants                                                       *)

(* 32-bit values are kept as <<high half, low half>> of 16 bits each, so   *)
(* that 32-bit arithmetic keeps its width.                                 *)
Half == 2 ^ 16

Word(n) == <<n \div Half, n % Half>>

Zero == Word(0)

(* ERROR_DAT_R = 0xdec0adba *)
ERROR_DAT_R == <<57024, 44474>>

(* limit = CSRStorage(32, reset=100) *)
LimitReset == 100

(* soft_control = CSRStorage(reset=1) *)
SoftControlReset == 1

(* wishbone.Interface(): data_width 32, hence 4 sel bits *)
SelWidth == 4

(* Bounds of the model                                                     *)

MaxTimeouts == 4

MaxLimit == 3

(* Values the model drives on data and address signals                     *)
(* (0, 0xcafebabe and the sentinel; 0x100 and 0x200).                      *)
DataValues == {Zero, <<51966, 47806>>, ERROR_DAT_R}

AdrValues == {256, 512}

LimitValues == {Word(l) : l \in 0 .. MaxLimit}

(* Unsigned comparison and increment of 32-bit values.                     *)
Lt(a, b) == a[1] < b[1] \/ (a[1] = b[1] /\ a[2] < b[2])

Inc(a) ==
    IF a[2] + 1 < Half THEN <<a[1], a[2] + 1>>
    ELSE <<(a[1] + 1) % Half, 0>>

----------------------------------------------------------------------------
(* Wishbone interface records                                              *)

AllSel == 2 ^ SelWidth - 1

NoRequest ==
    [cyc |-> FALSE, stb |-> FALSE, we |-> FALSE, adr |-> 0, dat_w |-> Zero,
     sel |-> 0]

NoResponse ==
    [ack |-> FALSE, err |-> FALSE, dat_r |-> Zero]

(* What a bus master may drive in a cycle: nothing, cyc or stb alone, or a *)
(* read or write request.                                                  *)
Read(a) ==
    [cyc |-> TRUE, stb |-> TRUE, we |-> FALSE, adr |-> a, dat_w |-> Zero,
     sel |-> AllSel]

Write(a, d) ==
    [cyc |-> TRUE, stb |-> TRUE, we |-> TRUE, adr |-> a, dat_w |-> d,
     sel |-> AllSel]

Requests ==
    {NoRequest,
     [NoRequest EXCEPT !.cyc = TRUE],
     [NoRequest EXCEPT !.stb = TRUE]}
    \cup {Read(a) : a \in AdrValues}
    \cup {Write(256, d) : d \in DataValues \ {Zero}}

(* What a slave may answer in a cycle: nothing, ack, err, or both, with    *)
(* some read data.                                                         *)
Responses ==
    {NoResponse}
    \cup {[ack |-> TRUE, err |-> FALSE, dat_r |-> d] : d \in DataValues}
    \cup {[ack |-> TRUE, err |-> TRUE, dat_r |-> d] : d \in DataValues \ {ERROR_DAT_R}}
    \cup {[ack |-> FALSE, err |-> TRUE, dat_r |-> Zero]}

NoCsr == <<"none", Zero>>

----------------------------------------------------------------------------
(* WishboneGuard                                                           *)

(* comb: If(timeouts.status < limit.storage, master.connect(slave))        *)
GuardOpenOffByOne == ~Lt(limit, timeouts)

GuardOpen == Lt(timeouts, limit)

(* Signals the guard drives on its slave interface.                        *)
GuardSlaveUngated(master) == master

GuardSlave(master) == IF GuardOpen THEN master ELSE NoRequest

(* Signals the guard drives back to its master.                            *)
GuardMasterUngated(slave_rsp) == slave_rsp

GuardMaster(slave_rsp) == IF GuardOpen THEN slave_rsp ELSE NoResponse

(* A timeout event: master.cyc & timeout.                                  *)
GuardEventStb == cpu.cyc /\ cpu.stb /\ timeout

GuardEvent == cpu.cyc /\ timeout

(* sync: If(master.cyc & timeout, timeouts.status.eq(timeouts.status + 1)) *)
(* The reset CSR is declared but no statement reads reset.re.              *)
GuardSync ==
    timeouts' = IF GuardEvent THEN Inc(timeouts) ELSE timeouts

(* CSRStorage limit: a CSR write replaces the storage on the clock edge.   *)
LimitSync ==
    limit' = IF csr[1] = "limit" THEN csr[2] ELSE limit

GuardCsr == {NoCsr} \cup {<<"limit", l>> : l \in LimitValues}

(* Inputs of the next cycle.  The timeout flag is no longer raised once    *)
(* MaxTimeouts events have been counted.                                   *)
GuardRequests ==
    {NoRequest, [NoRequest EXCEPT !.cyc = TRUE], Read(256),
     Write(256, ERROR_DAT_R)}

GuardResponses ==
    {r \in Responses : r.dat_r = Zero}

GuardInputs ==
    /\ cpu' \in GuardRequests
    /\ rsp' \in GuardResponses
    /\ timeout' \in (IF Lt(timeouts', Word(MaxTimeouts)) THEN BOOLEAN ELSE {FALSE})
    /\ reset_re' \in BOOLEAN
    /\ csr' \in GuardCsr

GuardClock ==
    /\ GuardSync
    /\ LimitSync
    /\ GuardInputs
    /\ UNCHANGED <<soft_control, softcontrol_vars, soft, mem, axi_vars, debug_vars, build_vars>>

(* The same guard late in a long run: 2^32 - 1 - WrapMargin events have    *)
(* been counted.  After the 32-bit counter has wrapped, the timeout flag   *)
(* is no longer raised once MaxTimeouts further events have been counted.  *)
WrapMargin == 2

WrapStart == <<Half - 1, Half - 1 - WrapMargin>>

GuardWrapRequests == {NoRequest, [NoRequest EXCEPT !.cyc = TRUE], Read(256)}

GuardWrapCsr == {NoCsr, <<"limit", Word(1)>>, <<"limit", WrapStart>>}

GuardWrapInputs ==
    /\ cpu' \in GuardWrapRequests
    /\ rsp' \in {NoResponse, [NoResponse EXCEPT !.ack = TRUE]}
    /\ timeout' \in (IF \/ ~Lt(timeouts', WrapStart)
                         \/ Lt(timeouts', Word(MaxTimeouts))
                      THEN BOOLEAN ELSE {FALSE})
    /\ reset_re' \in BOOLEAN
    /\ csr' \in GuardWrapCsr

GuardWrapClock ==
    /\ GuardSync
    /\ LimitSync
    /\ GuardWrapInputs
    /\ UNCHANGED <<soft_control, softcontrol_vars, soft, mem, axi_vars,
                   debug_vars, build_vars>>

----------------------------------------------------------------------------
(* WishboneSoftControl                                                     *)

(* comb outputs of the FSM on wb: fsm.act("WRITE", ...), fsm.act("READ",   *)
(* ...); in IDLE nothing is driven and every signal keeps its reset value. *)
SoftWbUnlatched ==
    CASE state = "WRITE" ->
            [cyc |-> TRUE, stb |-> TRUE, we |-> TRUE, adr |-> adr_storage,
             dat_w |-> data_storage, sel |-> AllSel]
      [] state = "READ" ->
            [cyc |-> TRUE, stb |-> TRUE, we |-> FALSE, adr |-> adr_storage,
             dat_w |-> Zero, sel |-> AllSel]
      [] OTHER -> NoRequest

SoftWb ==
    CASE state = "WRITE" ->
            [cyc |-> TRUE, stb |-> TRUE, we |-> TRUE, adr |-> adr,
             dat_w |-> data, sel |-> AllSel]
      [] state = "READ" ->
            [cyc |-> TRUE, stb |-> TRUE, we |-> FALSE, adr |-> adr,
             dat_w |-> Zero, sel |-> AllSel]
      [] OTHER -> NoRequest

(* fsm.act("IDLE"): two consecutive If statements; when both conditions    *)
(* hold both bodies execute and the later NextState assignment is the one  *)
(* that takes effect.                                                      *)
IdleNextState ==
    IF read_re THEN "READ" ELSE IF write_re THEN "WRITE" ELSE "IDLE"

FsmIdle ==
    /\ state = "IDLE"
    /\ state' = IdleNextState
    /\ adr' = IF write_re \/ read_re THEN adr_storage ELSE adr
    /\ data' = IF write_re THEN data_storage ELSE data

(* fsm.act("WRITE"): If(wb.ack, NextState("IDLE"))                         *)
BusyNextState(r) == IF r.ack THEN "IDLE" ELSE state

FsmWriteRelatch(r) ==
    /\ state = "WRITE"
    /\ state' = BusyNextState(r)
    /\ adr' = adr_storage
    /\ data' = data_storage

FsmWrite(r) ==
    /\ state = "WRITE"
    /\ state' = BusyNextState(r)
    /\ UNCHANGED <<adr, data>>

(* fsm.act("READ"): If(wb.ack, If(wb.err, NextValue(data, ERROR_DAT_R))    *)
(*                             .Else(NextValue(self.data.storage, dat_r)), *)
(*                     NextState("IDLE"))                                  *)
FsmRead(r) ==
    /\ state = "READ"
    /\ state' = BusyNextState(r)
    /\ data' = IF r.ack /\ r.err THEN ERROR_DAT_R ELSE data
    /\ UNCHANGED adr

(* Value the READ state assigns to data.storage in this cycle, if any.     *)
ReadCapture(r) ==
    IF state = "READ" /\ r.ack /\ ~r.err THEN {r.dat_r} ELSE {}

(* Value a CSR write assigns to the named storage in this cycle, if any.   *)
CsrWrite(name) == IF csr[1] = name THEN {csr[2]} ELSE {}

(* data.storage is assigned by the FSM (NextValue) and by the CSR bank;    *)
(* the order of the two sync statements is not fixed by this code, so when *)
(* both assign in one cycle either value may be the one stored.            *)
DataStorageSync(r) ==
    LET assigned == ReadCapture(r) \cup CsrWrite("data")
    IN  data_storage' \in (IF assigned = {} THEN {data_storage} ELSE assigned)

AdrStorageSync ==
    LET assigned == CsrWrite("adr")
    IN  adr_storage' \in (IF assigned = {} THEN {adr_storage} ELSE assigned)

(* History of the last write command issued: the staged address and data   *)
(* latched by the IDLE state on a write-issue pulse that leads to WRITE,   *)
(* and whether a read of that address has completed since.                 *)
LastWriteSync(r) ==
    last_write' =
        IF state = "IDLE" /\ IdleNextState = "WRITE"
        THEN <<adr_storage, data_storage, FALSE>>
        ELSE IF /\ state = "READ" /\ BusyNextState(r) = "IDLE"
                /\ last_write # <<>> /\ last_write[1] = adr
        THEN <<last_write[1], last_write[2], TRUE>>
        ELSE last_write

SoftControlSync(r) ==
    /\ FsmIdle \/ FsmWrite(r) \/ FsmRead(r)
    /\ DataStorageSync(r)
    /\ AdrStorageSync

SoftCsr ==
    {NoCsr} \cup {<<"data", d>> : d \in DataValues \ {Zero, ERROR_DAT_R}}
            \cup {<<"adr", a>> : a \in AdrValues}

SoftInputs ==
    /\ write_re' \in BOOLEAN
    /\ read_re' \in BOOLEAN
    /\ csr' \in SoftCsr

(* The soft controller alone, its wb attached to an arbitrary slave.       *)
SoftClock ==
    /\ SoftControlSync(rsp)
    /\ SoftInputs
    /\ rsp' \in Responses
    /\ UNCHANGED <<timeouts, limit, timeout, reset_re, soft_control, cpu, soft,
                   mem, last_write, axi_vars, debug_vars, build_vars>>

SoftClockIdle == state = "IDLE" /\ SoftClock

SoftClockWrite == state = "WRITE" /\ SoftClock

SoftClockRead == state = "READ" /\ SoftClock

----------------------------------------------------------------------------
(* Ideal memory slave: never errs, acknowledges every request (at once or  *)
(* after wait states), stores what is written and returns what it stores.  *)
IdealResponses(req, m) ==
    IF req.cyc /\ req.stb
    THEN {NoResponse, [ack |-> TRUE, err |-> FALSE, dat_r |-> m[req.adr]]}
    ELSE {NoResponse}

MemSync(req, r) ==
    mem' = IF req.cyc /\ req.stb /\ req.we /\ r.ack
           THEN [mem EXCEPT ![req.adr] = req.dat_w]
           ELSE mem

MemoryCsr ==
    {NoCsr} \cup {<<"data", d>> : d \in DataValues \ {Zero}}
            \cup {<<"adr", 256>>}

(* The soft controller with its wb attached to the ideal memory.           *)
MemoryClock ==
    /\ SoftControlSync(rsp)
    /\ LastWriteSync(rsp)
    /\ MemSync(SoftWb, rsp)
    /\ write_re' \in BOOLEAN
    /\ read_re' \in BOOLEAN
    /\ csr' \in MemoryCsr
    /\ rsp' \in IdealResponses(SoftWb', mem')
    /\ UNCHANGED <<timeouts, limit, timeout, reset_re, soft_control, cpu, soft,
                   axi_vars, debug_vars, build_vars>>

MemoryClockIdle == state = "IDLE" /\ MemoryClock

MemoryClockWrite == state = "WRITE" /\ MemoryClock

MemoryClockRead == state = "READ" /\ MemoryClock

----------------------------------------------------------------------------
(* WishboneSoftInjector                                                    *)

(* comb: If(soft_control.storage, wb_csr.connect(wb_slave), ...)           *)
(*       .Else(wb_cpu.connect(wb_slave))                                   *)
(* Request signals driven on wb_slave.                                     *)
InjectorSlaveHardware(cpu_req, csr_req) == cpu_req

InjectorSlave(cpu_req, csr_req) ==
    IF soft_control # 0 THEN csr_req ELSE cpu_req

(* Response signals driven back to wb_cpu, the hardware master.            *)
InjectorCpuAckOnCyc(cpu_req, slave_rsp) ==
    IF soft_control # 0
    THEN [ack |-> cpu_req.cyc, err |-> FALSE, dat_r |-> ERROR_DAT_R]
    ELSE slave_rsp

InjectorCpu(cpu_req, slave_rsp) ==
    IF soft_control # 0
    THEN [ack |-> cpu_req.cyc /\ cpu_req.stb, err |-> FALSE,
          dat_r |-> ERROR_DAT_R]
    ELSE slave_rsp

(* Response signals driven back to wb_csr, the soft master.                *)
InjectorCsrAlways(slave_rsp) == slave_rsp

InjectorCsr(slave_rsp) ==
    IF soft_control # 0 THEN slave_rsp ELSE NoResponse

(* CSRStorage soft_control: a CSR write replaces the bit on the clock edge.*)
SoftControlStorageSync ==
    soft_control' = IF csr[1] = "soft_control" THEN csr[2] ELSE soft_control

InjectorCsrWrites == {NoCsr, <<"soft_control", 0>>, <<"soft_control", 1>>}

InjectorCpuRequests ==
    {NoRequest, [NoRequest EXCEPT !.cyc = TRUE], Read(256),
     Write(256, <<51966, 47806>>)}

InjectorSoftRequests ==
    {NoRequest, [NoRequest EXCEPT !.stb = TRUE], Read(512),
     Write(512, ERROR_DAT_R)}

InjectorResponses ==
    {r \in Responses : r.dat_r # ERROR_DAT_R}

(* The injector alone: both masters and the slave are arbitrary.           *)
InjectorClock ==
    /\ SoftControlStorageSync
    /\ cpu' \in InjectorCpuRequests
    /\ soft' \in InjectorSoftRequests
    /\ rsp' \in InjectorResponses
    /\ csr' \in InjectorCsrWrites
    /\ UNCHANGED <<timeouts, limit, timeout, reset_re, softcontrol_vars, mem,
                   axi_vars, debug_vars, build_vars>>

----------------------------------------------------------------------------
(* AXILite2AXI                                                             *)

RECURSIVE BitLength(_)
(* int.bit_length()                                                        *)
BitLength(n) == IF n = 0 THEN 0 ELSE 1 + BitLength(n \div 2)

(* migen log2_int: (n - 1).bit_length(), which is log2(n) for a power of   *)
(* two and the next integer above log2(n) otherwise (need_pow2=False).     *)
log2_int(n) == IF n = 0 THEN 0 ELSE BitLength(n - 1)

(* burst_type = {"FIXED": 0b00, "INCR": 0b01, "WRAP": 0b10}[burst_type]    *)
BurstEncoding(t) ==
    CASE t = "FIXED" -> 0
      [] t = "INCR" -> 1
      [] t = "WRAP" -> 2

(* Assignment to a signal of w bits keeps the low w bits.                  *)
Fit(v, w) == IF w < 31 THEN v % (2 ^ w) ELSE v

(* comb: the aw channel driven on the AXI side.                            *)
AxiAwLenOne(lite) ==
    [valid |-> lite.aw_valid,
     addr  |-> Fit(lite.aw_addr, params.address_width),
     burst |-> BurstEncoding(params.burst_type),
     len   |-> 1,
     size  |-> log2_int(params.data_width \div 8),
     lock  |-> 0,
     prot  |-> 0,
     cache |-> 3,
     qos   |-> 0,
     id    |-> Fit(params.write_id, params.id_width)]

AxiAw(lite) ==
    [valid |-> lite.aw_valid,
     addr  |-> Fit(lite.aw_addr, params.address_width),
     burst |-> BurstEncoding(params.burst_type),
     len   |-> 0,
     size  |-> log2_int(params.data_width \div 8),
     lock  |-> 0,
     prot  |-> 0,
     cache |-> 3,
     qos   |-> 0,
     id    |-> Fit(params.write_id, params.id_width)]

(* comb: the w channel driven on the AXI side.                             *)
AxiW(lite) ==
    [valid |-> lite.w_valid,
     data  |-> lite.w_data,
     strb  |-> lite.w_strb,
     last  |-> 1]

(* comb: the ar channel driven on the AXI side.                            *)
AxiAr(lite) ==
    [valid |-> lite.ar_valid,
     addr  |-> Fit(lite.ar_addr, params.address_width),
     burst |-> BurstEncoding(params.burst_type),
     len   |-> 0,
     size  |-> log2_int(params.data_width \div 8),
     lock  |-> 0,
     prot  |-> 0,
     cache |-> 3,
     qos   |-> 0,
     id    |-> Fit(params.read_id, params.id_width)]

(* comb: b.ready and r.ready driven on the AXI side.                       *)
AxiReady(lite) ==
    [b_ready |-> lite.b_ready, r_ready |-> lite.r_ready]

(* comb: the signals driven back on the AXI-Lite side.                     *)
LiteOutRespOkay(axi) ==
    [aw_ready |-> axi.aw_ready,
     w_ready  |-> axi.w_ready,
     b_valid  |-> axi.b_valid,
     b_resp   |-> 0,
     ar_ready |-> axi.ar_ready,
     r_valid  |-> axi.r_valid,
     r_resp   |-> axi.r_resp,
     r_data   |-> axi.r_data]

LiteOut(axi) ==
    [aw_ready |-> axi.aw_ready,
     w_ready  |-> axi.w_ready,
     b_valid  |-> axi.b_valid,
     b_resp   |-> axi.b_resp,
     ar_ready |-> axi.ar_ready,
     r_valid  |-> axi.r_valid,
     r_resp   |-> axi.r_resp,
     r_data   |-> axi.r_data]

(* Inputs: what the AXI-Lite master and the AXI slave drive.               *)
LiteIdle ==
    [aw_valid |-> FALSE, aw_addr |-> 0, w_valid |-> FALSE, w_data |-> 0,
     w_strb |-> 0, b_ready |-> FALSE, ar_valid |-> FALSE, ar_addr |-> 0,
     r_ready |-> FALSE]

AxiIdle ==
    [aw_ready |-> FALSE, w_ready |-> FALSE, b_valid |-> FALSE, b_resp |-> 0,
     ar_ready |-> FALSE, r_valid |-> FALSE, r_resp |-> 0, r_data |-> 0]

(* Addresses up to 2^30 (of 37 bits), data words and byte strobes.         *)
AxiAddrValues == {32, 2 ^ 30}

AxiDataValues == {0, 2 ^ 30 + 5}

AxiStrbValues == {15, 2 ^ 30 + 1}

LiteDrives ==
    {[aw_valid |-> wr, aw_addr |-> awa, w_valid |-> wr, w_data |-> wd,
      w_strb |-> ws, b_ready |-> wr, ar_valid |-> rd, ar_addr |-> ara,
      r_ready |-> rd] :
        wr \in BOOLEAN, rd \in BOOLEAN, awa \in AxiAddrValues,
        ara \in AxiAddrValues, wd \in AxiDataValues, ws \in AxiStrbValues}

AxiDrives ==
    {[aw_ready |-> wrdy, w_ready |-> wrdy, b_valid |-> bv, b_resp |-> resp,
      ar_ready |-> rrdy, r_valid |-> ~bv, r_resp |-> resp, r_data |-> rdat] :
        wrdy \in BOOLEAN, rrdy \in BOOLEAN, bv \in BOOLEAN,
        resp \in {0, 2}, rdat \in {2 ^ 30 + 5}}

(* Constructor arguments: the transaction IDs fit the id_width bits of the *)
(* AXI interface (hbm_ip.py: id_width=6); data_width is a power of two.    *)
AxiParams ==
    {[write_id |-> ids[1], read_id |-> ids[2], burst_type |-> bt,
      data_width |-> dw, address_width |-> 37, id_width |-> 6] :
        ids \in {<<0, 0>>, <<0, 1>>, <<63, 1>>},
        bt \in {"FIXED", "INCR", "WRAP"}, dw \in {32, 256}}

LiteDrive ==
    /\ axi_lite' \in LiteDrives
    /\ UNCHANGED <<timeouts, limit, timeout, reset_re, soft_control,
                   softcontrol_vars, cpu, soft, rsp, csr, mem, axi_in, params,
                   debug_vars, build_vars>>

AxiDrive ==
    /\ axi_in' \in AxiDrives
    /\ UNCHANGED <<timeouts, limit, timeout, reset_re, soft_control,
                   softcontrol_vars, cpu, soft, rsp, csr, mem, axi_lite, params,
                   debug_vars, build_vars>>

----------------------------------------------------------------------------
(* BaseSoC.add_l2_cache: the size computation                              *)

RECURSIVE FloorLog2(_)
(* int(log2(n)) for n >= 1                                                 *)
FloorLog2(n) == IF n <= 1 THEN 0 ELSE 1 + FloorLog2(n \div 2)

Max(a, b) == IF a >= b THEN a ELSE b

(* int(2*wb_slave.data_width/8)                                            *)
MinimalSize(data_width) == (2 * data_width) \div 8

(* l2_cache_size = max(l2_cache_size, int(2*wb_slave.data_width/8))        *)
(* l2_cache_size = 2**int(log2(l2_cache_size))                             *)
L2CacheSize(l2_cache_size, data_width) ==
    2 ^ FloorLog2(Max(l2_cache_size, MinimalSize(data_width)))

(* Largest requested size of the dense range the model calls it with.      *)
MaxL2Size == 130

L2Sizes == (0 .. MaxL2Size) \cup {8192, 10000}

L2DataWidths == {32, 64, 128, 256, 512}

L2MinDataWidths == {128, 256}

L2Calls ==
    {[pc |-> "call", l2_cache_size |-> s, data_width |-> dw,
      min_data_width |-> m, size |-> 0] :
        s \in L2Sizes, dw \in L2DataWidths, m \in L2MinDataWidths}

(* assert wb_slave.data_width >= l2_cache_min_data_width                   *)
L2AssertSkipped(data_width, min_data_width) == TRUE

L2Assert(data_width, min_data_width) == data_width >= min_data_width

(* The assert, then the size computation; the result is what               *)
(* add_config("L2_SIZE", ...) records.                                     *)
AddL2Cache ==
    /\ l2.pc = "call"
    /\ l2' = IF L2Assert(l2.data_width, l2.min_data_width)
             THEN [l2 EXCEPT !.pc = "built",
                             !.size = L2CacheSize(l2.l2_cache_size, l2.data_width)]
             ELSE [l2 EXCEPT !.pc = "rejected"]
    /\ UNCHANGED <<guard_vars, soft_control, softcontrol_vars, cpu, soft, rsp,
                   csr, mem, axi_vars, debug_vars, wb2axi, soc>>

----------------------------------------------------------------------------
(* WishbonePipelined2AXI: the checks made at construction                  *)

(* assert axi.data_width >= wb.data_width                                  *)
(* assert axi.address_width ==                                             *)
(*            wb.adr_width + log2_int(wb.data_width, need_pow2=False) - 3  *)
(* assert (axi.data_width // wb.data_width) in [1, 2, 4, 8, 16, 32]        *)
Wb2AxiAsserts(wb_data_width, wb_adr_width, axi_data_width, axi_address_width) ==
    /\ axi_data_width >= wb_data_width
    /\ axi_address_width = wb_adr_width + log2_int(wb_data_width) - 3
    /\ (axi_data_width \div wb_data_width) \in {1, 2, 4, 8, 16, 32}

Wb2AxiWbDataWidths == {8, 16, 32, 48, 64, 256}

Wb2AxiAxiDataWidths == {16, 32, 48, 64, 96, 256, 512}

Wb2AxiWbAdrWidths == {30, 32}

Wb2AxiAxiAddressWidths == {32, 33, 35, 37}

Wb2AxiCalls ==
    {[pc |-> "call", wb_data_width |-> wd, wb_adr_width |-> wa,
      axi_data_width |-> ad, axi_address_width |-> aa] :
        wd \in Wb2AxiWbDataWidths, wa \in Wb2AxiWbAdrWidths,
        ad \in Wb2AxiAxiDataWidths, aa \in Wb2AxiAxiAddressWidths}

(* WishbonePipelined2AXI.__init__: a failing assert raises and no module   *)
(* is built.                                                               *)
WishbonePipelined2AXI ==
    /\ wb2axi.pc = "call"
    /\ wb2axi' = [wb2axi EXCEPT !.pc =
                    IF Wb2AxiAsserts(wb2axi.wb_data_width, wb2axi.wb_adr_width,
                                     wb2axi.axi_data_width,
                                     wb2axi.axi_address_width)
                    THEN "built" ELSE "rejected"]
    /\ UNCHANGED <<guard_vars, soft_control, softcontrol_vars, cpu, soft, rsp,
                   csr, mem, axi_vars, debug_vars, l2, soc>>

----------------------------------------------------------------------------
(* BaseSoC.__init__: construction of the HBM bus chain                     *)

(* wb_cpu = wishbone.Interface(): 32-bit data, 30-bit address              *)
WbCpu == [data_width |-> 32, adr_width |-> 30]

(* hbm_ip.py: AXIInterface(data_width=256, address_width=37, id_width=6)   *)
AxiHbm == [data_width |-> 256, address_width |-> 37]

(* wb_hbm = wishbone.Interface(data_width=axi_hbm.data_width)              *)
WbHbm == [data_width |-> AxiHbm.data_width, adr_width |-> 30]

(* wb_wider = wishbone.Interface(data_width=wb_hbm.data_width,             *)
(*                               adr_width=37 - 5)                         *)
WbWider == [data_width |-> WbHbm.data_width, adr_width |-> 37 - 5]

(* axi_lite_hbm = AXILiteInterface(data_width=axi_hbm.data_width,          *)
(*                                 address_width=axi_hbm.address_width)    *)
AxiLiteHbm == [data_width |-> AxiHbm.data_width,
               address_width |-> AxiHbm.address_width]

(* wb_pipe = wb2axi.WishbonePipelined(data_width=256, adr_width=32)        *)
WbPipe == [data_width |-> 256, adr_width |-> 32]

(* AXILite2AXI.__init__: the two width asserts                             *)
AXILite2AXIAsserts(lite, axi) ==
    /\ lite.data_width = axi.data_width
    /\ lite.address_width = axi.address_width

(* WishboneClassic2Pipeline.__init__: the two width asserts                *)
Classic2PipelineAsserts(wb_classic, wb_pipelined) ==
    /\ wb_classic.adr_width = wb_pipelined.adr_width
    /\ wb_classic.data_width = wb_pipelined.data_width

(* kwargs of the build: l2_size, min_l2_data_width, with_full_wb2axi       *)
SocL2Sizes == {0, 64, 4096, 8192, 10000, 16384}

SocMinL2DataWidths == {64, 128, 256, 512}

SocBuilds ==
    {[pc |-> "cache", l2_size |-> s, min_l2_data_width |-> m,
      with_full_wb2axi |-> f, links |-> {}] :
        s \in SocL2Sizes, m \in SocMinL2DataWidths, f \in BOOLEAN}

SocFrame ==
    UNCHANGED <<guard_vars, soft_control, softcontrol_vars, cpu, soft, rsp,
                csr, mem, axi_vars, debug_vars, l2, wb2axi>>

(* if l2_size != 0: self.add_l2_cache(wb_cpu, wb_hbm, ...)                 *)
SocAddL2Cache ==
    /\ soc.pc = "cache" /\ soc.l2_size # 0
    /\ soc' = [soc EXCEPT !.pc =
                 IF L2Assert(WbHbm.data_width, soc.min_l2_data_width)
                 THEN "wider" ELSE "rejected"]
    /\ SocFrame

(* else: self.comb += wb_cpu.connect(wb_hbm)                               *)
SocConnectCpu ==
    /\ soc.pc = "cache" /\ soc.l2_size = 0
    /\ soc' = [soc EXCEPT !.pc = "wider",
                          !.links = @ \cup {<<WbCpu, WbHbm>>}]
    /\ SocFrame

(* self.comb += wb_hbm.connect(wb_wider)   (made on both converter paths)  *)
SocConnectWider ==
    /\ soc.pc = "wider"
    /\ soc' = [soc EXCEPT !.pc = "convert",
                          !.links = @ \cup {<<WbHbm, WbWider>>}]
    /\ SocFrame

(* not with_full_wb2axi: Wishbone2AXILite, then AXILite2AXI                *)
SocLitePath ==
    /\ soc.pc = "convert" /\ ~soc.with_full_wb2axi
    /\ soc' = [soc EXCEPT !.pc =
                 IF AXILite2AXIAsserts(AxiLiteHbm, AxiHbm)
                 THEN "built" ELSE "rejected"]
    /\ SocFrame

(* with_full_wb2axi: WishboneClassic2Pipeline, then WishbonePipelined2AXI  *)
SocPipelinedPath ==
    /\ soc.pc = "convert" /\ soc.with_full_wb2axi
    /\ soc' = [soc EXCEPT !.pc =
                 IF /\ Classic2PipelineAsserts(WbWider, WbPipe)
                    /\ Wb2AxiAsserts(WbPipe.data_width, WbPipe.adr_width,
                                     AxiHbm.data_width, AxiHbm.address_width)
                 THEN "built" ELSE "rejected"]
    /\ SocFrame

----------------------------------------------------------------------------
(* BusCSRDebug                                                             *)

(* self.sync += [If(reset, count.status.eq(0)),                            *)
(*               If(trigger, count.status.eq(count.status + 1), *updates)] *)
(* Both Ifs are statements of one sync list: when both conditions hold the *)
(* later assignment to count.status is the one that takes effect.          *)
DebugCountSync ==
    count' = IF debug_in.trigger THEN Inc(count)
             ELSE IF debug_in.reset THEN Zero
             ELSE count

(* updates: csr.status.eq(signal), inside If(trigger, ...)                 *)
DebugSnapshotSync ==
    snapshot' = IF debug_in.trigger THEN debug_in.signal ELSE snapshot

(* Largest event count after which the model raises no further trigger.    *)
MaxCount == 4

DebugSignalValues == {0, 1, 2}

DebugInputs ==
    /\ debug_in' \in
         {[trigger |-> t, reset |-> r, signal |-> v] :
             t \in (IF Lt(count', Word(MaxCount)) THEN BOOLEAN ELSE {FALSE}),
             r \in BOOLEAN, v \in DebugSignalValues}

DebugClock ==
    /\ DebugCountSync
    /\ DebugSnapshotSync
    /\ DebugInputs
    /\ UNCHANGED <<guard_vars, soft_control, softcontrol_vars, cpu, soft, rsp,
                   csr, mem, axi_vars, build_vars>>

----------------------------------------------------------------------------
(* The chain built by BaseSoC: hardware master -> WishboneGuard ->          *)
(* WishboneSoftInjector -> slave, with WishboneSoftControl driving the     *)
(* injector's wb_csr port.                                                 *)

(* wb_cpu = self.wb_guard.slave: the injector's wb_cpu port                *)
ChainGuardSlave == GuardSlave(cpu)

(* wb_cpu = self.wb_injector.wb_slave: the request the slave sees          *)
ChainSlave == InjectorSlave(ChainGuardSlave, SoftWb)

(* The response on wb_soft, the bus of WishboneSoftControl                 *)
ChainSoft == InjectorCsr(rsp)

(* The response the hardware master sees through the guard                 *)
ChainMaster == GuardMaster(InjectorCpu(ChainGuardSlave, rsp))

(* Number of timeout events after which the model raises no further one.   *)
ChainMaxTimeouts == 1

ChainCsr ==
    {NoCsr, <<"limit", Word(1)>>, <<"soft_control", 0>>, <<"soft_control", 1>>}

ChainResponses ==
    {NoResponse, [ack |-> TRUE, err |-> FALSE, dat_r |-> <<51966, 47806>>]}

ChainInputs ==
    /\ cpu' \in {NoRequest, Read(256), Write(256, <<51966, 47806>>)}
    /\ rsp' \in ChainResponses
    /\ timeout' \in (IF Lt(timeouts', Word(ChainMaxTimeouts))
                     THEN BOOLEAN ELSE {FALSE})
    /\ write_re' \in BOOLEAN
    /\ read_re' \in BOOLEAN
    /\ csr' \in ChainCsr

(* One clock edge of the three modules together.                           *)
ChainClock ==
    /\ GuardSync
    /\ LimitSync
    /\ SoftControlStorageSync
    /\ SoftControlSync(ChainSoft)
    /\ ChainInputs
    /\ UNCHANGED <<reset_re, soft, mem, last_write, axi_vars, debug_vars,
                   build_vars>>

(* A clock edge after which the slave acknowledges.                        *)
ChainAck == ChainClock /\ rsp'.ack

----------------------------------------------------------------------------
(* Initial state: every register at its reset value, no input active.      *)

DefaultParams ==
    [write_id |-> 0, read_id |-> 0, burst_type |-> "INCR",
     data_width |-> 256, address_width |-> 37, id_width |-> 6]

(* Nothing is being constructed.                                           *)
NoCall == [pc |-> "none"]

DebugIdle == [trigger |-> FALSE, reset |-> FALSE, signal |-> 0]

InitRest ==
    /\ limit = Word(LimitReset)
    /\ soft_control = SoftControlReset
    /\ state = "IDLE"
    /\ adr = 0
    /\ data = Zero
    /\ data_storage = Zero
    /\ adr_storage = 0
    /\ cpu = NoRequest
    /\ soft = NoRequest
    /\ timeout = FALSE
    /\ rsp = NoResponse
    /\ write_re = FALSE
    /\ read_re = FALSE
    /\ reset_re = FALSE
    /\ csr = NoCsr
    /\ mem = [a \in AdrValues \cup {0} |-> Zero]
    /\ last_write = <<>>
    /\ axi_lite = LiteIdle
    /\ axi_in = AxiIdle
    /\ count = Zero
    /\ snapshot = 0
    /\ debug_in = DebugIdle

InitRegisters == timeouts = Zero /\ InitRest

InitBuild == l2 = NoCall /\ wb2axi = NoCall /\ soc = NoCall

Init == InitRegisters /\ params = DefaultParams /\ InitBuild

(* AXILite2AXI built with any of the constructor arguments.                *)
InitAxi == InitRegisters /\ params \in AxiParams /\ InitBuild

SpecGuard == Init /\ [][GuardClock]_vars

SpecSoft == Init /\ [][SoftClockIdle \/ SoftClockWrite \/ SoftClockRead]_vars

SpecInjector == Init /\ [][InjectorClock]_vars

SpecAxi == InitAxi /\ [][LiteDrive \/ AxiDrive]_vars

SpecMemory == Init /\ [][MemoryClockIdle \/ MemoryClockWrite \/ MemoryClockRead]_vars

InitL2 ==
    /\ InitRegisters /\ params = DefaultParams
    /\ l2 \in L2Calls /\ wb2axi = NoCall /\ soc = NoCall

SpecL2 == InitL2 /\ [][AddL2Cache]_vars

InitWb2Axi ==
    /\ InitRegisters /\ params = DefaultParams
    /\ l2 = NoCall /\ wb2axi \in Wb2AxiCalls /\ soc = NoCall

SpecWb2Axi == InitWb2Axi /\ [][WishbonePipelined2AXI]_vars

InitSoc ==
    /\ InitRegisters /\ params = DefaultParams
    /\ l2 = NoCall /\ wb2axi = NoCall /\ soc \in SocBuilds

SpecSoc ==
    InitSoc /\ [][SocAddL2Cache \/ SocConnectCpu \/ SocConnectWider
                    \/ SocLitePath \/ SocPipelinedPath]_vars

InitGuardWrap ==
    /\ timeouts = WrapStart /\ InitRest
    /\ params = DefaultParams /\ InitBuild

SpecGuardWrap == InitGuardWrap /\ [][GuardWrapClock]_vars

SpecDebug == Init /\ [][DebugClock]_vars

SpecChain == Init /\ [][ChainClock]_vars

(* The clock keeps running and the slave acknowledges again and again.     *)
SpecChainFair == SpecChain /\ WF_vars(ChainClock) /\ WF_vars(ChainAck)

----------------------------------------------------------------------------
(* Properties                                                              *)

(* C1 (as amended): with the limit register left unchanged the gate stays  *)
(* OPEN while fewer than limit timeout events have been counted and is     *)
(* CLOSED on the cycle after the event that makes the count reach the      *)
(* limit; once CLOSED it stays CLOSED across every cycle without a reset   *)
(* pulse in which the limit register is not raised and the 32-bit counter  *)
(* does not wrap to 0.                                                     *)
C1_TimeoutGate ==
    [][ /\ (GuardOpen /\ limit' = limit /\ GuardEvent /\ Inc(timeouts) = limit)
            => ~GuardOpen'
        /\ (GuardOpen /\ limit' = limit /\ ~(GuardEvent /\ Inc(timeouts) = limit))
            => GuardOpen'
        /\ (/\ ~GuardOpen /\ ~reset_re /\ ~Lt(limit, limit')
            /\ ~(GuardEvent /\ Inc(timeouts) = Zero))
            => ~GuardOpen' ]_vars

(* C1 witness: the gate has been closed by counted timeout events reaching *)
(* a limit of at least 1.                                                  *)
C1_Witness ==
    /\ ~GuardOpen
    /\ timeouts = limit
    /\ Lt(Zero, limit)

(* C1 as stated: once CLOSED by timeout events reaching a limit of at least *)
(* 1, the gate stays CLOSED until a reset, whatever limit-register writes  *)
(* follow.                                                                 *)
C1_ClosedUntilReset ==
    [][ (~GuardOpen /\ Lt(Zero, limit) /\ ~reset_re) => ~GuardOpen' ]_vars

(* C2: a pulse on the guard's reset input sets violation_count to 0 and,   *)
(* for a limit of at least 1, leaves the gate OPEN.                        *)
C2_ResetClears ==
    [][ reset_re => (timeouts' = Zero /\ (Lt(Zero, limit') => GuardOpen')) ]_vars

(* C3: while the gate is CLOSED the slave side carries no request (cyc = 0 *)
(* and stb = 0 whatever the master drives) and the master sees neither     *)
(* acknowledge nor error.                                                  *)
C3_ClosedIsolates ==
    ~GuardOpen =>
        /\ ~GuardSlave(cpu).cyc
        /\ ~GuardSlave(cpu).stb
        /\ ~GuardMaster(rsp).ack
        /\ ~GuardMaster(rsp).err

(* C3 witness: the gate is CLOSED after counted timeouts, the master       *)
(* presents a request and the downstream slave raises acknowledge.         *)
C3_Witness ==
    /\ ~GuardOpen
    /\ timeouts # Zero
    /\ cpu.cyc /\ cpu.stb
    /\ rsp.ack

(* C4: when the slave ends a READ cycle with the error response, the data  *)
(* CSR holds the sentinel 0xDEC0ADBA once the controller is back in IDLE.  *)
C4_ReadErrorSentinel ==
    [][ (state = "READ" /\ rsp.ack /\ rsp.err /\ csr[1] # "data")
            => (state' = "IDLE" /\ data_storage' = ERROR_DAT_R) ]_vars

(* C5: against the ideal memory, a read that completes at the address of   *)
(* the last issued write leaves the data CSR equal to the data of that     *)
(* write (no CSR write to the data register in the completing cycle).      *)
C5_WriteReadRoundTrip ==
    [][ (/\ state = "READ" /\ state' = "IDLE"
         /\ last_write # <<>> /\ last_write[1] = adr
         /\ csr[1] # "data")
            => data_storage' = last_write[2] ]_vars

(* C5 witness: write(0x100, 0xCAFEBABE) was issued, a later read of 0x100  *)
(* has completed and the data CSR holds 0xCAFEBABE, the memory cell too.   *)
C5_Witness ==
    /\ last_write = <<256, <<51966, 47806>>, TRUE>>
    /\ state = "IDLE"
    /\ mem[256] = <<51966, 47806>>
    /\ data_storage = <<51966, 47806>>

(* C6: in IDLE the write-issue pulse has priority: both pulses or write-   *)
(* issue alone lead to WRITE, read-issue alone to READ, neither to IDLE.   *)
C6_WritePriority ==
    [][ state = "IDLE" =>
            state' = (IF write_re THEN "WRITE"
                      ELSE IF read_re THEN "READ" ELSE "IDLE") ]_vars

(* C7: whenever the controller is in WRITE or READ and the slave ends the  *)
(* cycle by acknowledge or by error, it is in IDLE on the next cycle.      *)
C7_TerminatesOnAckOrErr ==
    [][ (state \in {"WRITE", "READ"} /\ (rsp.ack \/ rsp.err))
            => state' = "IDLE" ]_vars

(* C8: whenever soft_control is set, the slave connection carries exactly  *)
(* the soft master's request, the soft master receives the slave's         *)
(* response, and the hardware master sees dat_r = 0xDEC0ADBA with ack      *)
(* equal to its own cyc AND stb in the same cycle.                         *)
C8_SoftModeMux ==
    soft_control = 1 =>
        /\ InjectorSlave(cpu, soft) = soft
        /\ InjectorCsr(rsp) = rsp
        /\ InjectorCpu(cpu, rsp).dat_r = ERROR_DAT_R
        /\ InjectorCpu(cpu, rsp).ack = (cpu.cyc /\ cpu.stb)

(* C8 witness: soft mode, the hardware master holds cyc without stb, the   *)
(* soft master presents a request, and the slave acknowledges with data.   *)
C8_Witness ==
    /\ soft_control = 1
    /\ cpu.cyc /\ ~cpu.stb
    /\ soft.cyc /\ soft.stb
    /\ rsp.ack /\ rsp.dat_r # Zero

(* C9: while a request is presented on the slave connection and is not yet *)
(* answered, the master that drives the slave does not change.             *)
C9_NoSwitchInFlight ==
    [][ (/\ InjectorSlave(cpu, soft).cyc /\ InjectorSlave(cpu, soft).stb
         /\ ~rsp.ack /\ ~rsp.err)
            => soft_control' = soft_control ]_vars

(* C10: the AXI side carries the lite side's aw.addr, ar.addr, w.data and  *)
(* w.strb unchanged in the same cycle; aw.len = ar.len = 0, w.last = 1,    *)
(* aw.id = write_id, ar.id = read_id, burst is the encoding of the         *)
(* configured burst type, 2^size = data_width / 8, cache = 0b0011 and      *)
(* lock = prot = qos = 0.                                                  *)
C10_Fidelity ==
    LET aw == AxiAw(axi_lite)
        ar == AxiAr(axi_lite)
        w  == AxiW(axi_lite)
        enc == [FIXED |-> 0, INCR |-> 1, WRAP |-> 2]
    IN  /\ aw.addr = axi_lite.aw_addr
        /\ ar.addr = axi_lite.ar_addr
        /\ w.data = axi_lite.w_data
        /\ w.strb = axi_lite.w_strb
        /\ aw.len = 0 /\ ar.len = 0
        /\ w.last = 1
        /\ aw.id = params.write_id
        /\ ar.id = params.read_id
        /\ aw.burst = enc[params.burst_type]
        /\ ar.burst = enc[params.burst_type]
        /\ 8 * 2 ^ aw.size = params.data_width
        /\ 8 * 2 ^ ar.size = params.data_width
        /\ aw.cache = 3 /\ ar.cache = 3
        /\ aw.lock = 0 /\ aw.prot = 0 /\ aw.qos = 0
        /\ ar.lock = 0 /\ ar.prot = 0 /\ ar.qos = 0

(* C10 witness: a write and a read are presented together with different   *)
(* addresses, on an adapter built with write_id 63, read_id 1 and WRAP.    *)
C10_Witness ==
    /\ axi_lite.aw_valid /\ axi_lite.w_valid /\ axi_lite.ar_valid
    /\ axi_lite.aw_addr = 2 ^ 30 /\ axi_lite.ar_addr = 32
    /\ axi_lite.w_data # 0
    /\ params.write_id = 63 /\ params.read_id = 1
    /\ params.burst_type = "WRAP"

(* C11: on each of the five channels the valid and the ready seen on one   *)
(* side of AXILite2AXI are those driven on the other side in the same      *)
(* cycle, b.resp, r.resp and r.data reach the lite side unmodified, and a  *)
(* handshake (valid and ready both high) completes on the lite side in a   *)
(* cycle exactly when it completes on the AXI side.  The adapter has only  *)
(* comb assignments: its outputs are functions of this cycle's inputs.     *)
C11_HandshakeTransparent ==
    LET aw  == AxiAw(axi_lite)
        w   == AxiW(axi_lite)
        ar  == AxiAr(axi_lite)
        rdy == AxiReady(axi_lite)
        out == LiteOut(axi_in)
    IN  /\ aw.valid = axi_lite.aw_valid /\ out.aw_ready = axi_in.aw_ready
        /\ w.valid = axi_lite.w_valid   /\ out.w_ready = axi_in.w_ready
        /\ out.b_valid = axi_in.b_valid /\ rdy.b_ready = axi_lite.b_ready
        /\ ar.valid = axi_lite.ar_valid /\ out.ar_ready = axi_in.ar_ready
        /\ out.r_valid = axi_in.r_valid /\ rdy.r_ready = axi_lite.r_ready
        /\ out.b_resp = axi_in.b_resp
        /\ out.r_resp = axi_in.r_resp
        /\ out.r_data = axi_in.r_data
        /\ (axi_lite.aw_valid /\ out.aw_ready) <=> (aw.valid /\ axi_in.aw_ready)
        /\ (axi_lite.w_valid /\ out.w_ready) <=> (w.valid /\ axi_in.w_ready)
        /\ (out.b_valid /\ axi_lite.b_ready) <=> (axi_in.b_valid /\ rdy.b_ready)
        /\ (axi_lite.ar_valid /\ out.ar_ready) <=> (ar.valid /\ axi_in.ar_ready)
        /\ (out.r_valid /\ axi_lite.r_ready) <=> (axi_in.r_valid /\ rdy.r_ready)

(* C11 witness: a write response with a non-OKAY resp code is accepted by  *)
(* the lite master in the cycle in which its write address is presented    *)
(* but not yet accepted by the AXI slave, while a read address completes.  *)
C11_Witness ==
    /\ axi_in.b_valid /\ axi_in.b_resp = 2 /\ axi_lite.b_ready
    /\ axi_lite.aw_valid /\ ~axi_in.aw_ready
    /\ axi_lite.ar_valid /\ axi_in.ar_ready
    /\ ~axi_in.r_valid /\ axi_lite.r_ready

(* C12: the effective cache size of add_l2_cache is a power of two, not    *)
(* smaller than the requested size and not smaller than twice the slave    *)
(* bus's byte width.                                                       *)
C12_RoundedUp ==
    l2.pc = "built" =>
        /\ \E k \in 0 .. 14 : l2.size = 2 ^ k
        /\ l2.size >= l2.l2_cache_size
        /\ l2.size >= 2 * (l2.data_width \div 8)

(* C13: WishbonePipelined2AXI is built exactly when the AXI data width is  *)
(* not smaller than the Wishbone data width, the AXI data width is the     *)
(* Wishbone data width times exactly one of 1, 2, 4, 8, 16, 32, and the    *)
(* AXI address width is the Wishbone address width + log2(Wishbone data    *)
(* width) - 3; every other construction is rejected.                       *)
C13_RejectsUnlessExact ==
    wb2axi.pc \in {"built", "rejected"} =>
        (wb2axi.pc = "built" <=>
            /\ wb2axi.axi_data_width >= wb2axi.wb_data_width
            /\ \E k \in {1, 2, 4, 8, 16, 32} :
                   wb2axi.axi_data_width = k * wb2axi.wb_data_width
            /\ wb2axi.axi_address_width =
                   wb2axi.wb_adr_width + log2_int(wb2axi.wb_data_width) - 3)

(* C14 (as amended): a build of the HBM bus chain is rejected exactly when *)
(* an assert of one of its components fails - with the widths of this      *)
(* design, only add_l2_cache's minimum slave data width - and in every     *)
(* accepted build the interfaces handed to AXILite2AXI, to                 *)
(* WishboneClassic2Pipeline and to WishbonePipelined2AXI satisfy those     *)
(* components' width asserts.  The plain connect() statements are not      *)
(* checked: every accepted build connects wb_hbm (30 address bits) to      *)
(* wb_wider (32 address bits), and a build without L2 cache connects the   *)
(* 32-bit wb_cpu to the 256-bit wb_hbm.                                    *)
C14_CheckedAdapters ==
    /\ soc.pc = "rejected" =>
           (soc.l2_size # 0 /\ WbHbm.data_width < soc.min_l2_data_width)
    /\ soc.pc = "built" =>
           /\ soc.l2_size # 0 => WbHbm.data_width >= soc.min_l2_data_width
           /\ ~soc.with_full_wb2axi =>
                  (/\ AxiLiteHbm.data_width = AxiHbm.data_width
                   /\ AxiLiteHbm.address_width = AxiHbm.address_width)
           /\ soc.with_full_wb2axi =>
                  (/\ WbWider.data_width = WbPipe.data_width
                   /\ WbWider.adr_width = WbPipe.adr_width
                   /\ AxiHbm.data_width = WbPipe.data_width
                   /\ AxiHbm.address_width = WbPipe.adr_width + 8 - 3)
           /\ <<WbHbm, WbWider>> \in soc.links
           /\ soc.l2_size = 0 <=> <<WbCpu, WbHbm>> \in soc.links

(* C14 witness: a build without L2 cache on the pipelined path is accepted *)
(* with both direct connections made.                                      *)
C14_Witness ==
    /\ soc.pc = "built" /\ soc.l2_size = 0 /\ soc.with_full_wb2axi
    /\ soc.links = {<<WbCpu, WbHbm>>, <<WbHbm, WbWider>>}

(* C14 as stated: in an accepted build no two directly connected bus       *)
(* interfaces differ in data width or address width.                       *)
C14_MismatchRejected ==
    soc.pc = "built" =>
        \A link \in soc.links :
            /\ link[1].data_width = link[2].data_width
            /\ link[1].adr_width = link[2].adr_width

(* C15 (as amended): on a cycle without reset pulse the violation count    *)
(* becomes the count plus one modulo 2^32 when master.cyc and timeout are  *)
(* both asserted and is unchanged otherwise; it does not decrease unless   *)
(* it was 2^32 - 1, from where the next timeout event wraps it to 0.       *)
C15_CountsModulo ==
    [][ ~reset_re =>
          /\ (cpu.cyc /\ timeout) =>
                /\ timeouts'[2] = (timeouts[2] + 1) % Half
                /\ timeouts'[1] =
                     (timeouts[1] + (IF timeouts[2] = Half - 1 THEN 1 ELSE 0)) % Half
          /\ ~(cpu.cyc /\ timeout) => timeouts' = timeouts
          /\ timeouts # <<Half - 1, Half - 1>> => ~Lt(timeouts', timeouts)
          /\ (timeouts = <<Half - 1, Half - 1>> /\ cpu.cyc /\ timeout)
                => timeouts' = Zero ]_vars

(* C15 witness: the counter has wrapped and counted one more event, and    *)
(* the gate that was CLOSED before the wrap is OPEN under the reset limit. *)
C15_Witness ==
    /\ timeouts = Word(1) /\ limit = Word(LimitReset) /\ GuardOpen

(* C15 as stated: between resets the violation count never decreases, so   *)
(* it never goes from 2^32 - 1 back to 0.                                  *)
C15_NeverDecreases ==
    [][ ~reset_re => ~Lt(timeouts', timeouts) ]_vars

(* C17: the event count increases by exactly one on each trigger cycle,    *)
(* the snapshot register changes only on trigger cycles, and on every      *)
(* cycle in which reset is asserted, with or without trigger, the count    *)
(* reads 0 on the next cycle.                                              *)
C17_CountAndReset ==
    [][ /\ (debug_in.trigger /\ ~debug_in.reset) => count' = Inc(count)
        /\ ~debug_in.trigger => snapshot' = snapshot
        /\ (~debug_in.trigger /\ ~debug_in.reset) => count' = count
        /\ debug_in.reset => count' = Zero ]_vars

(* C18: in WRITE and READ the controller drives cyc = stb = 1, sel all     *)
(* ones and the address (and, in WRITE, the write data) latched when the   *)
(* command was issued; until ack the state, the latches and the driven     *)
(* signals stay as they are whatever is written to the adr/data CSRs and   *)
(* whatever issue pulses arrive; on ack the controller returns to IDLE     *)
(* without re-issuing, and in IDLE it drives cyc = stb = 0.                *)
C18_InFlightStable ==
    [][ /\ state = "IDLE" => (~SoftWb.cyc /\ ~SoftWb.stb)
        /\ state = "WRITE" =>
              SoftWb = [cyc |-> TRUE, stb |-> TRUE, we |-> TRUE, adr |-> adr,
                        dat_w |-> data, sel |-> 2 ^ SelWidth - 1]
        /\ state = "READ" =>
              (/\ SoftWb.cyc /\ SoftWb.stb /\ ~SoftWb.we
               /\ SoftWb.adr = adr /\ SoftWb.sel = 2 ^ SelWidth - 1)
        /\ (state = "IDLE" /\ state' # "IDLE") =>
              (/\ adr' = adr_storage
               /\ state' = "WRITE" => data' = data_storage)
        /\ (state # "IDLE" /\ ~rsp.ack) =>
              (/\ state' = state /\ adr' = adr /\ data' = data
               /\ SoftWb' = SoftWb)
        /\ (state # "IDLE" /\ rsp.ack) => state' = "IDLE" ]_vars

(* C18 witness: a write is in flight and not acknowledged, both staging    *)
(* registers have been rewritten since it was issued, and a read-issue     *)
(* pulse arrives.                                                          *)
C18_Witness ==
    /\ state = "WRITE" /\ ~rsp.ack
    /\ adr # adr_storage /\ data # data_storage
    /\ read_re

(* C19: in the guard -> injector -> slave chain a soft command in flight   *)
(* stays in WRITE/READ across every cycle in which soft_control is 0,      *)
(* whatever the slave answers; with a slave that keeps acknowledging,      *)
(* every soft command in flight eventually returns to IDLE unless          *)
(* soft_control is taken to 0.                                             *)
C19_SoftLiveness ==
    /\ [][ (state # "IDLE" /\ soft_control = 0) => state' = state ]_vars
    /\ (state # "IDLE") ~> (state = "IDLE" \/ soft_control = 0)

(* C19 witness: a soft write is in flight with the injector in hardware    *)
(* mode while the slave acknowledges.                                      *)
C19_Witness ==
    /\ state = "WRITE" /\ soft_control = 0 /\ rsp.ack

(* C20: whenever the guard is CLOSED and the injector is in soft mode, the *)
(* slave sees the soft controller's request and the soft controller sees   *)
(* the slave's response, so an acknowledged soft command returns to IDLE;  *)
(* the hardware master's request is not forwarded by the guard and the     *)
(* hardware master sees neither ack nor err.                               *)
C20_SoftBypassesGuard ==
    [][ (~GuardOpen /\ soft_control = 1) =>
          /\ ChainSlave = SoftWb
          /\ ChainSoft = rsp
          /\ (state # "IDLE" /\ rsp.ack) => state' = "IDLE"
          /\ ~ChainGuardSlave.cyc /\ ~ChainGuardSlave.stb
          /\ ~ChainMaster.ack /\ ~ChainMaster.err ]_vars

(* C20 witness: the guard was closed by a timeout event, the injector is   *)
(* in soft mode, a soft read is acknowledged by the slave and the hardware *)
(* master presents a request.                                              *)
C20_Witness ==
    /\ ~GuardOpen /\ timeouts = Word(1) /\ soft_control = 1
    /\ state = "READ" /\ rsp.ack
    /\ cpu.cyc /\ cpu.stb

(* C21: after reset soft_control is 1 and stays 1 until a CSR write clears *)
(* it; while it is 1, a hardware-master request (read or write) passing an *)
(* OPEN guard is acknowledged in the same cycle with read data 0xdec0adba  *)
(* and without err, and the slave sees only what the soft controller       *)
(* drives: nothing at all while the soft controller is IDLE.               *)
C21_InitialSoftMode ==
    /\ soft_control = 1
    /\ [][ soft_control = 1 =>
             /\ csr # <<"soft_control", 0>> => soft_control' = 1
             /\ GuardOpen =>
                   (/\ ChainMaster.ack = (cpu.cyc /\ cpu.stb)
                    /\ ~ChainMaster.err
                    /\ ChainMaster.dat_r = <<57024, 44474>>)
             /\ ChainSlave = SoftWb
             /\ state = "IDLE" => (~ChainSlave.cyc /\ ~ChainSlave.stb) ]_vars

(* C21 witness: with the select bit still 1 and the guard OPEN the         *)
(* hardware master presents a write while the soft controller is IDLE and  *)
(* the slave would acknowledge.                                            *)
C21_Witness ==
    /\ soft_control = 1 /\ GuardOpen /\ state = "IDLE"
    /\ cpu.cyc /\ cpu.stb /\ cpu.we
    /\ rsp.ack

====
